---- MODULE Spec2Model ----
(***************************************************************************)
(* Employee Task Manager (FastAPI): the dual-mode authentication layer     *)
(* (bearer token / API key), the role gate built on it, the /auth          *)
(* endpoints (register, login, me, create-admin), and the employee and     *)
(* task handlers behind the gate.                                          *)
(*                                                                         *)
(* A request is modelled from the moment FastAPI resolves the handler's    *)
(* dependencies to the moment the response is produced. The response of    *)
(* the last completed request is kept in resp; a registration running      *)
(* concurrently with others keeps its own position and response in reg.    *)
(***************************************************************************)
EXTENDS Integers, FiniteSets, Sequences, TLC

(***************************************************************************)
(* Bounds of the model.                                                    *)
(***************************************************************************)
MaxEmployees == 2
MaxTasks == 2
MaxEpoch == 1

(***************************************************************************)
(* Configuration (config.py) and the values of models.py.                  *)
(***************************************************************************)
API_KEY == "your-secret-api-key-12345"
\* settings.API_KEYS, a comma-separated string: its values.
API_KEYS == {"secret-key-123", "test-key-456", "intern-key-789"}
ACCESS_TOKEN_EXPIRE_MINUTES == 1440

ADMIN == "admin"
CLIENT == "client"
UserRole == {ADMIN, CLIENT}

\* Python's None where an object is expected (Optional[User], Optional
\* credentials), and where a string is expected (an absent header or claim).
None == [none |-> TRUE]
NoValue == "<none>"

(***************************************************************************)
(* Input domains.                                                          *)
(***************************************************************************)
Usernames == {"alice", "bob"}
UserEmails == {"alice@x.io", "bob@x.io"}
Passwords == {"secret1"}
\* A subject that is never registered.
GhostName == "mallory"

\* The instants at which the clock is observed, in minutes since start.
Instants == {0} \cup {ACCESS_TOKEN_EXPIRE_MINUTES * k + j : k \in 1..MaxEpoch, j \in 0..1}

(***************************************************************************)
(* State.                                                                  *)
(***************************************************************************)
VARIABLES
    users,       \* table users: set of rows
    selfAdmins,  \* ids of the rows inserted by /auth/register with role admin
    employees,   \* table employees: set of rows
    tasks,       \* table tasks: set of rows
    now,         \* datetime.utcnow(), in minutes
    reg,         \* the register and create-admin requests in flight, per worker
    resp         \* the response of the last request that completed

vars == <<users, selfAdmins, employees, tasks, now, reg, resp>>

(***************************************************************************)
(* jwt_auth.py: password hashing. bcrypt's salt is left out: a hash        *)
(* verifies against exactly the password it was made from.                 *)
(***************************************************************************)
hash_password(password) == "$2b$" \o password

verify_password(plain_password, hashed_password) ==
    hashed_password = "$2b$" \o plain_password

(***************************************************************************)
(* jwt_auth.py: queries on the users table.                                *)
(***************************************************************************)
get_user_by_username(db, username) ==
    IF \E u \in db : u.username = username
    THEN CHOOSE u \in db : u.username = username
    ELSE None

get_user_by_email(db, email) ==
    IF \E u \in db : u.email = email
    THEN CHOOSE u \in db : u.email = email
    ELSE None

(***************************************************************************)
(* jwt_auth.py: tokens. A token is the record of its claims and of whether *)
(* its signature verifies under SECRET_KEY and ALGORITHM.                  *)
(***************************************************************************)
create_access_token(data, t) ==
    [signed |-> TRUE,
     payload |-> [sub |-> data.sub, role |-> data.role,
                  exp |-> t + ACCESS_TOKEN_EXPIRE_MINUTES]]

\* Mutant: the signature is not verified.
jwt_decode_ok_Unverified(token, t) ==
    "exp" \in DOMAIN token.payload => token.payload.exp >= t

\* Mutant: the exp claim is not verified.
jwt_decode_ok_NoExpiry(token, t) == token.signed

\* Mutant: a token verifies only at the instant it was issued.
jwt_decode_ok_OnlyAtIssue(token, t) ==
    /\ token.signed
    /\ ("exp" \in DOMAIN token.payload =>
           token.payload.exp = t + ACCESS_TOKEN_EXPIRE_MINUTES)

\* jose's jwt.decode: the signature is verified, then the exp claim if the
\* payload has one (it is not required). TRUE iff no JWTError is raised.
jwt_decode_ok(token, t) ==
    /\ token.signed
    /\ ("exp" \in DOMAIN token.payload => token.payload.exp >= t)

\* payload.get("sub")
payload_sub(payload) ==
    IF "sub" \in DOMAIN payload THEN payload.sub ELSE NoValue

\* Mutant: the role is taken from the token's claim, not from the row.
get_current_user_TokenRole(token, db, t) ==
    IF ~(token.signed /\ ("exp" \in DOMAIN token.payload => token.payload.exp >= t))
    THEN None
    ELSE IF "sub" \notin DOMAIN token.payload THEN None
    ELSE IF \E u \in db : u.username = token.payload.sub
    THEN [(CHOOSE u \in db : u.username = token.payload.sub)
             EXCEPT !.role = token.payload.role]
    ELSE None

\* Mutant: a session store that honours a token only until the clock has
\* moved past the instant it was issued.
get_current_user_SessionBound(token, db, t) ==
    IF ~(token.signed /\ ("exp" \in DOMAIN token.payload => token.payload.exp >= t))
    THEN None
    ELSE IF "exp" \in DOMAIN token.payload
            /\ t > token.payload.exp - ACCESS_TOKEN_EXPIRE_MINUTES
    THEN None
    ELSE IF "sub" \notin DOMAIN token.payload THEN None
    ELSE IF \E u \in db : u.username = token.payload.sub
    THEN CHOOSE u \in db : u.username = token.payload.sub
    ELSE None

\* The result of get_current_user: the row, or None for the 401
\* credentials_exception.
get_current_user(token, db, t) ==
    IF ~jwt_decode_ok(token, t) THEN None
    ELSE IF payload_sub(token.payload) = NoValue THEN None
    ELSE get_user_by_username(db, payload_sub(token.payload))

(***************************************************************************)
(* auth.py: the API key dependency. raised = the HTTPException 401         *)
(* "Invalid API Key".                                                      *)
(***************************************************************************)
get_api_key(api_key) ==
    IF api_key = NoValue THEN [raised |-> FALSE, value |-> NoValue]
    ELSE IF api_key = API_KEY THEN [raised |-> FALSE, value |-> api_key]
    ELSE [raised |-> TRUE, value |-> NoValue]

(***************************************************************************)
(* auth_dependencies.py: the resolver and the two gates.                   *)
(***************************************************************************)
virtual_admin ==
    [id |-> 0, username |-> "api_key_user", email |-> "api@system.com",
     hashed_password |-> "", role |-> ADMIN, is_active |-> TRUE]

\* Mutant: a bearer token that fails verification ends the resolution.
get_current_user_dual_NoFallback(bearer, api_key, db, t) ==
    IF bearer # None THEN get_current_user(bearer, db, t)
    ELSE IF api_key # NoValue THEN virtual_admin
    ELSE None

\* Mutant: the API key is tried before the bearer token.
get_current_user_dual_KeyFirst(bearer, api_key, db, t) ==
    IF api_key # NoValue THEN virtual_admin
    ELSE IF bearer # None THEN get_current_user(bearer, db, t)
    ELSE None

\* Mutant: a bearer account is given the admin role when the key is valid.
get_current_user_dual_Merged(bearer, api_key, db, t) ==
    LET user == IF bearer = None THEN None ELSE get_current_user(bearer, db, t)
    IN  IF user # None
        THEN IF api_key # NoValue THEN [user EXCEPT !.role = ADMIN] ELSE user
        ELSE IF api_key # NoValue THEN virtual_admin
        ELSE None

\* bearer: a token or None; api_key: the value get_api_key returned.
get_current_user_dual(bearer, api_key, db, t) ==
    LET user == IF bearer = None THEN None ELSE get_current_user(bearer, db, t)
    IN  IF user # None THEN user
        ELSE IF api_key # NoValue THEN virtual_admin
        ELSE None

\* The outcome of a dependency chain: status 0 means "passed", and user is
\* what the handler receives; NotCalled marks a resolver that never ran.
NotCalled == [not_called |-> TRUE]

Passed(user) == [status |-> 0, detail |-> "", user |-> user]
Failed(status, detail, user) == [status |-> status, detail |-> detail, user |-> user]

UNAUTHENTICATED == "Authentication required"
INVALID_API_KEY == "Invalid API Key"
FORBIDDEN == "Admin privileges required"

\* Mutant: only an admin passes.
require_authentication_AdminOnly(bearer, api_key_header, db, t) ==
    LET key == get_api_key(api_key_header)
    IN  IF key.raised THEN Failed(401, INVALID_API_KEY, NotCalled)
        ELSE LET user == get_current_user_dual(bearer, key.value, db, t)
             IN  IF user = None THEN Failed(401, UNAUTHENTICATED, None)
                 ELSE IF user.role # ADMIN THEN Failed(403, FORBIDDEN, user)
                 ELSE Passed(user)

\* FastAPI solves get_api_key before it calls get_current_user_dual: an
\* exception raised there ends the request.
require_authentication(bearer, api_key_header, db, t) ==
    LET key == get_api_key(api_key_header)
    IN  IF key.raised THEN Failed(401, INVALID_API_KEY, NotCalled)
        ELSE LET user == get_current_user_dual(bearer, key.value, db, t)
             IN  IF user = None THEN Failed(401, UNAUTHENTICATED, None)
                 ELSE Passed(user)

\* Mutant: the role is not checked.
require_admin_NoRoleCheck(bearer, api_key_header, db, t) ==
    require_authentication(bearer, api_key_header, db, t)

require_admin(bearer, api_key_header, db, t) ==
    LET auth == require_authentication(bearer, api_key_header, db, t)
    IN  IF auth.status # 0 THEN auth
        ELSE IF auth.user.role # ADMIN THEN Failed(403, FORBIDDEN, auth.user)
        ELSE auth

(***************************************************************************)
(* Responses. A response records the request's credentials as sent, the    *)
(* time it was served, the status and detail returned, the user the        *)
(* dependency chain produced, the access token of a Token response, and,   *)
(* for the /auth endpoints, the request body.                              *)
(***************************************************************************)
Response(op, bearer, api_key, status, detail, user, token) ==
    [op |-> op, bearer |-> bearer, api_key |-> api_key, at |-> now,
     status |-> status, detail |-> detail, user |-> user, token |-> token,
     body |-> None]

NoResponse == Response("none", None, NoValue, 0, "", NotCalled, None)

WithBody(response, body) == [response EXCEPT !.body = body]

\* The response of a request that its dependency chain rejected.
Rejected(op, bearer, api_key, auth) ==
    Response(op, bearer, api_key, auth.status, auth.detail, auth.user, None)

(***************************************************************************)
(* jwt_auth.py create_user: the new row, and the commit under the unique   *)
(* constraints of models.User (username, email).                           *)
(***************************************************************************)
NextUserId(db) ==
    IF db = {} THEN 1 ELSE 1 + CHOOSE m \in {u.id : u \in db} : \A u \in db : u.id <= m

create_user(db, data, role) ==
    [id |-> NextUserId(db), username |-> data.username, email |-> data.email,
     hashed_password |-> hash_password(data.password), role |-> role,
     is_active |-> TRUE]

\* Mutant: the table has no unique constraint.
UniqueViolation_Unchecked(db, row) == FALSE

\* TRUE iff the INSERT violates a unique constraint (IntegrityError).
UniqueViolation(db, row) ==
    \E u \in db : u.username = row.username \/ u.email = row.email

(***************************************************************************)
(* routers/auth_router.py register: the three checks before the insert,    *)
(* each a query of its own.                                                *)
(***************************************************************************)
UserCreate == [username : Usernames, email : UserEmails, password : Passwords,
               role : UserRole]

USERNAME_TAKEN == "Username already registered"
EMAIL_TAKEN == "Email already registered"
NO_SELF_ADMIN == "Cannot self-register as admin"
SERVER_ERROR == "Internal Server Error"

UsernameRegistered(db, data) == get_user_by_username(db, data.username) # None

\* Mutant: the email is not looked up.
EmailRegistered_Never(db, data) == FALSE

EmailRegistered(db, data) == get_user_by_email(db, data.email) # None

\* Mutant: the count is compared with 1.
AdminDenied_OffByOne(user_count, data) == user_count > 1 /\ data.role = ADMIN

\* user_count > 0 and user_data.role.value == "admin"
AdminDenied(user_count, data) == user_count > 0 /\ data.role = ADMIN

\* Mutant: the token's subject is the email of the account.
TokenResponse_SubEmail(op, user, t) ==
    Response(op, None, NoValue, 201, "", user,
             create_access_token([sub |-> user.email, role |-> user.role], t))

\* The Token response of register and login.
TokenResponse(op, user, t) ==
    Response(op, None, NoValue, 201, "", user,
             create_access_token([sub |-> user.username, role |-> user.role], t))

\* register with no other request running between its queries and its insert.
Register(data) ==
    /\ UNCHANGED <<employees, tasks, now, reg>>
    /\ IF UsernameRegistered(users, data)
       THEN /\ resp' = WithBody(Response("register", None, NoValue, 400, USERNAME_TAKEN,
                                         NotCalled, None), data)
            /\ UNCHANGED <<users, selfAdmins>>
       ELSE IF EmailRegistered(users, data)
       THEN /\ resp' = WithBody(Response("register", None, NoValue, 400, EMAIL_TAKEN,
                                         NotCalled, None), data)
            /\ UNCHANGED <<users, selfAdmins>>
       ELSE IF AdminDenied(Cardinality(users), data)
       THEN /\ resp' = WithBody(Response("register", None, NoValue, 403, NO_SELF_ADMIN,
                                         NotCalled, None), data)
            /\ UNCHANGED <<users, selfAdmins>>
       ELSE LET db_user == create_user(users, data, data.role)
            IN  /\ users' = users \cup {db_user}
                /\ selfAdmins' = IF data.role = ADMIN
                                 THEN selfAdmins \cup {db_user.id} ELSE selfAdmins
                /\ resp' = WithBody(TokenResponse("register", db_user, now), data)

(***************************************************************************)
(* register as run by the thread pool: def handlers run concurrently, and  *)
(* other requests commit between one query and the next. Each request has  *)
(* the session that Depends(get_db) opened for it (database.py).           *)
(***************************************************************************)
Workers == {"w1", "w2"}

\* A worker's request: its position, its body, the answer it produced, and
\* whether the session get_db opened for it is still open.
Idle == [pc |-> "idle", data |-> None, status |-> 0, detail |-> "", db |-> FALSE]

\* The handler has returned or raised; the session is closed next.
Finished(status, detail) ==
    [pc |-> "exit", data |-> None, status |-> status, detail |-> detail, db |-> TRUE]

At(pc, data) == [pc |-> pc, data |-> data, status |-> 0, detail |-> "", db |-> TRUE]

RegStart(w, data) ==
    /\ reg[w].pc = "idle"
    /\ reg' = [reg EXCEPT ![w] = At("check_username", data)]
    /\ UNCHANGED <<users, selfAdmins, employees, tasks, now, resp>>

RegCheckUsername(w) ==
    /\ reg[w].pc = "check_username"
    /\ reg' = [reg EXCEPT ![w] =
                 IF UsernameRegistered(users, reg[w].data)
                 THEN Finished(400, USERNAME_TAKEN)
                 ELSE At("check_email", reg[w].data)]
    /\ UNCHANGED <<users, selfAdmins, employees, tasks, now, resp>>

RegCheckEmail(w) ==
    /\ reg[w].pc = "check_email"
    /\ reg' = [reg EXCEPT ![w] =
                 IF EmailRegistered(users, reg[w].data)
                 THEN Finished(400, EMAIL_TAKEN)
                 ELSE At("count", reg[w].data)]
    /\ UNCHANGED <<users, selfAdmins, employees, tasks, now, resp>>

RegCount(w) ==
    /\ reg[w].pc = "count"
    /\ reg' = [reg EXCEPT ![w] =
                 IF AdminDenied(Cardinality(users), reg[w].data)
                 THEN Finished(403, NO_SELF_ADMIN)
                 ELSE At("create", reg[w].data)]
    /\ UNCHANGED <<users, selfAdmins, employees, tasks, now, resp>>

RegCreate(w) ==
    /\ reg[w].pc = "create"
    /\ LET data == reg[w].data
           db_user == create_user(users, data, data.role)
       IN  IF UniqueViolation(users, db_user)
           THEN /\ reg' = [reg EXCEPT ![w] = Finished(500, SERVER_ERROR)]
                /\ UNCHANGED <<users, selfAdmins>>
           ELSE /\ users' = users \cup {db_user}
                /\ selfAdmins' = IF data.role = ADMIN
                                 THEN selfAdmins \cup {db_user.id} ELSE selfAdmins
                /\ reg' = [reg EXCEPT ![w] = Finished(201, "")]
    /\ UNCHANGED <<employees, tasks, now, resp>>

\* Mutant: the session is closed only after a handler that returned.
Released_OnSuccessOnly(r) ==
    IF r.status >= 400 THEN [r EXCEPT !.pc = "idle"]
    ELSE [r EXCEPT !.pc = "idle", !.db = FALSE]

\* database.py get_db: finally: db.close()
Released(r) == [r EXCEPT !.pc = "idle", !.db = FALSE]

get_db_close(w) ==
    /\ reg[w].pc = "exit"
    /\ reg' = [reg EXCEPT ![w] = Released(reg[w])]
    /\ UNCHANGED <<users, selfAdmins, employees, tasks, now, resp>>

(***************************************************************************)
(* The clock.                                                              *)
(***************************************************************************)
Tick ==
    /\ \E t \in Instants : t > now /\ now' = t
    /\ UNCHANGED <<users, selfAdmins, employees, tasks, reg, resp>>

(***************************************************************************)
(* Employees and tasks (models.py). An employee row keeps its id and its   *)
(* unique email; a task row keeps its id and employee_id, an Optional[int] *)
(* written <<>> for NULL and <<n>> for n. The other columns (name, role,   *)
(* title, description, status) take part in no decision of the handlers.   *)
(* Ids are allotted as SQLite allots an INTEGER PRIMARY KEY: the largest   *)
(* id in the table plus one. Foreign keys are not enforced (SQLite, the    *)
(* default DATABASE_URL, with no PRAGMA foreign_keys).                     *)
(***************************************************************************)
Null == <<>>

EmployeeEmails == {"e1@x.io", "e2@x.io"}

MaxId(rows) ==
    IF rows = {} THEN 0 ELSE CHOOSE m \in {r.id : r \in rows} : \A r \in rows : r.id <= m

EmployeeById(db, id) == {e \in db : e.id = id}

TaskById(db, id) == {t \in db : t.id = id}

NOT_FOUND == "not found"
EMPLOYEE_EXISTS == "Employee with email already exists"

Done(op, bearer, api_key, status, auth) ==
    Response(op, bearer, api_key, status, "", auth.user, None)

Refused(op, bearer, api_key, status, detail, auth) ==
    Response(op, bearer, api_key, status, detail, auth.user, None)

(***************************************************************************)
(* routers/employees.py. Each handler is one action: the dependency chain  *)
(* is solved from the headers first, and only a request that passes it     *)
(* reaches the body, with its path parameters and payload drawn from the   *)
(* sets given.                                                             *)
(***************************************************************************)
create_employee(bearer, api_key, emails) ==
    LET auth == require_authentication(bearer, api_key, users, now)
    IN  /\ MaxId(employees) < MaxEmployees
        /\ UNCHANGED <<users, selfAdmins, tasks, now, reg>>
        /\ IF auth.status # 0
           THEN /\ resp' = Rejected("create_employee", bearer, api_key, auth)
                /\ UNCHANGED employees
           ELSE \E email \in emails :
                IF \E e \in employees : e.email = email
                THEN /\ resp' = Refused("create_employee", bearer, api_key, 400,
                                        EMPLOYEE_EXISTS, auth)
                     /\ UNCHANGED employees
                ELSE /\ employees' = employees \cup
                                     {[id |-> MaxId(employees) + 1, email |-> email]}
                     /\ resp' = Done("create_employee", bearer, api_key, 201, auth)

\* An update is the record of the fields the request set, as
\* model_dump(exclude_unset=True) returns them.
update_employee(bearer, api_key, ids, updates) ==
    LET auth == require_authentication(bearer, api_key, users, now)
    IN  /\ UNCHANGED <<users, selfAdmins, tasks, now, reg>>
        /\ IF auth.status # 0
           THEN /\ resp' = Rejected("update_employee", bearer, api_key, auth)
                /\ UNCHANGED employees
           ELSE \E employee_id \in ids, update \in updates :
                LET found == EmployeeById(employees, employee_id)
                IN  IF found = {}
                    THEN /\ resp' = Refused("update_employee", bearer, api_key, 404,
                                            NOT_FOUND, auth)
                         /\ UNCHANGED employees
                    ELSE LET db_employee == CHOOSE e \in found : TRUE
                         IN  IF /\ "email" \in DOMAIN update
                                /\ update.email # db_employee.email
                                /\ \E e \in employees : e.email = update.email
                             THEN /\ resp' = Refused("update_employee", bearer, api_key,
                                                     400, EMPLOYEE_EXISTS, auth)
                                  /\ UNCHANGED employees
                             ELSE /\ employees' =
                                       (employees \ {db_employee}) \cup
                                       {IF "email" \in DOMAIN update
                                        THEN [db_employee EXCEPT !.email = update.email]
                                        ELSE db_employee}
                                  /\ resp' = Done("update_employee", bearer, api_key,
                                                  200, auth)

\* Mutant: the employee's tasks are left in the table.
delete_employee_NoCascade(bearer, api_key, ids) ==
    LET auth == require_admin(bearer, api_key, users, now)
    IN  /\ UNCHANGED <<users, selfAdmins, tasks, now, reg>>
        /\ IF auth.status # 0
           THEN /\ resp' = Rejected("delete_employee", bearer, api_key, auth)
                /\ UNCHANGED employees
           ELSE \E employee_id \in ids :
                LET found == EmployeeById(employees, employee_id)
                IN  IF found = {}
                    THEN /\ resp' = Refused("delete_employee", bearer, api_key, 404,
                                            NOT_FOUND, auth)
                         /\ UNCHANGED employees
                    ELSE /\ employees' = employees \ found
                         /\ resp' = Done("delete_employee", bearer, api_key, 204, auth)

\* db.delete(db_employee) deletes the employee's tasks with it
\* (relationship cascade="all, delete-orphan").
delete_employee(bearer, api_key, ids) ==
    LET auth == require_admin(bearer, api_key, users, now)
    IN  /\ UNCHANGED <<users, selfAdmins, now, reg>>
        /\ IF auth.status # 0
           THEN /\ resp' = Rejected("delete_employee", bearer, api_key, auth)
                /\ UNCHANGED <<employees, tasks>>
           ELSE \E employee_id \in ids :
                LET found == EmployeeById(employees, employee_id)
                IN  IF found = {}
                    THEN /\ resp' = Refused("delete_employee", bearer, api_key, 404,
                                            NOT_FOUND, auth)
                         /\ UNCHANGED <<employees, tasks>>
                    ELSE /\ employees' = employees \ found
                         /\ tasks' = {t \in tasks : t.employee_id # <<employee_id>>}
                         /\ resp' = Done("delete_employee", bearer, api_key, 204, auth)

(***************************************************************************)
(* routers/tasks.py                                                        *)
(***************************************************************************)
\* Python's truth value of an Optional[int]: None and 0 are false.
Truthy(opt) == opt # Null /\ opt # <<0>>

create_task(bearer, api_key, employee_ids) ==
    LET auth == require_authentication(bearer, api_key, users, now)
    IN  /\ MaxId(tasks) < MaxTasks
        /\ UNCHANGED <<users, selfAdmins, employees, now, reg>>
        /\ IF auth.status # 0
           THEN /\ resp' = Rejected("create_task", bearer, api_key, auth)
                /\ UNCHANGED tasks
           ELSE \E employee_id \in employee_ids :
                IF Truthy(employee_id) /\ EmployeeById(employees, employee_id[1]) = {}
                THEN /\ resp' = Refused("create_task", bearer, api_key, 404, NOT_FOUND, auth)
                     /\ UNCHANGED tasks
                ELSE /\ tasks' = tasks \cup
                                 {[id |-> MaxId(tasks) + 1, employee_id |-> employee_id]}
                     /\ resp' = Done("create_task", bearer, api_key, 201, auth)

update_task(bearer, api_key, ids, updates) ==
    LET auth == require_authentication(bearer, api_key, users, now)
    IN  /\ UNCHANGED <<users, selfAdmins, employees, now, reg>>
        /\ IF auth.status # 0
           THEN /\ resp' = Rejected("update_task", bearer, api_key, auth)
                /\ UNCHANGED tasks
           ELSE \E task_id \in ids, update \in updates :
                LET found == TaskById(tasks, task_id)
                IN  IF found = {}
                    THEN /\ resp' = Refused("update_task", bearer, api_key, 404,
                                            NOT_FOUND, auth)
                         /\ UNCHANGED tasks
                    ELSE LET db_task == CHOOSE t \in found : TRUE
                         IN  IF /\ "employee_id" \in DOMAIN update
                                /\ update.employee_id # Null
                                /\ update.employee_id[1] > 0
                                /\ EmployeeById(employees, update.employee_id[1]) = {}
                             THEN /\ resp' = Refused("update_task", bearer, api_key, 404,
                                                     NOT_FOUND, auth)
                                  /\ UNCHANGED tasks
                             ELSE /\ tasks' =
                                       (tasks \ {db_task}) \cup
                                       {IF "employee_id" \in DOMAIN update
                                        THEN [db_task EXCEPT
                                                !.employee_id = update.employee_id]
                                        ELSE db_task}
                                  /\ resp' = Done("update_task", bearer, api_key, 200, auth)

delete_task(bearer, api_key, ids) ==
    LET auth == require_admin(bearer, api_key, users, now)
    IN  /\ UNCHANGED <<users, selfAdmins, employees, now, reg>>
        /\ IF auth.status # 0
           THEN /\ resp' = Rejected("delete_task", bearer, api_key, auth)
                /\ UNCHANGED tasks
           ELSE \E task_id \in ids :
                LET found == TaskById(tasks, task_id)
                IN  IF found = {}
                    THEN /\ resp' = Refused("delete_task", bearer, api_key, 404,
                                            NOT_FOUND, auth)
                         /\ UNCHANGED tasks
                    ELSE /\ tasks' = tasks \ found
                         /\ resp' = Done("delete_task", bearer, api_key, 204, auth)

assign_task_to_employee(bearer, api_key, ids, employee_ids) ==
    LET auth == require_authentication(bearer, api_key, users, now)
    IN  /\ UNCHANGED <<users, selfAdmins, employees, now, reg>>
        /\ IF auth.status # 0
           THEN /\ resp' = Rejected("assign_task", bearer, api_key, auth)
                /\ UNCHANGED tasks
           ELSE \E task_id \in ids, employee_id \in employee_ids :
                LET found == TaskById(tasks, task_id)
                IN  IF found = {} \/ EmployeeById(employees, employee_id) = {}
                    THEN /\ resp' = Refused("assign_task", bearer, api_key, 404,
                                            NOT_FOUND, auth)
                         /\ UNCHANGED tasks
                    ELSE LET db_task == CHOOSE t \in found : TRUE
                         IN  /\ tasks' = (tasks \ {db_task}) \cup
                                         {[db_task EXCEPT !.employee_id = <<employee_id>>]}
                             /\ resp' = Done("assign_task", bearer, api_key, 200, auth)

(***************************************************************************)
(* The list and get-by-id endpoints of routers/employees.py and            *)
(* routers/tasks.py. They depend on get_db only: the Authorization and     *)
(* X-API-Key headers of the request are not read. The response keeps the   *)
(* id asked for in body.                                                   *)
(***************************************************************************)
Listed(op, bearer, api_key) ==
    Response(op, bearer, api_key, 200, "", NotCalled, None)

Fetched(op, bearer, api_key, found, id) ==
    WithBody(IF found = {}
             THEN Response(op, bearer, api_key, 404, NOT_FOUND, NotCalled, None)
             ELSE Response(op, bearer, api_key, 200, "", NotCalled, None),
             [id |-> id])

get_all_employees(bearer, api_key) ==
    /\ resp' = Listed("get_all_employees", bearer, api_key)
    /\ UNCHANGED <<users, selfAdmins, employees, tasks, now, reg>>

\* Mutant: the endpoint is put behind require_authentication.
get_employee_by_id_Gated(bearer, api_key, ids) ==
    LET auth == require_authentication(bearer, api_key, users, now)
    IN  /\ UNCHANGED <<users, selfAdmins, employees, tasks, now, reg>>
        /\ IF auth.status # 0
           THEN resp' = WithBody(Rejected("get_employee_by_id", bearer, api_key, auth),
                                 [id |-> 0])
           ELSE \E employee_id \in ids :
                  resp' = Fetched("get_employee_by_id", bearer, api_key,
                                  EmployeeById(employees, employee_id), employee_id)

get_employee_by_id(bearer, api_key, ids) ==
    /\ \E employee_id \in ids :
         resp' = Fetched("get_employee_by_id", bearer, api_key,
                         EmployeeById(employees, employee_id), employee_id)
    /\ UNCHANGED <<users, selfAdmins, employees, tasks, now, reg>>

get_all_tasks(bearer, api_key) ==
    /\ resp' = Listed("get_all_tasks", bearer, api_key)
    /\ UNCHANGED <<users, selfAdmins, employees, tasks, now, reg>>

get_task_by_id(bearer, api_key, ids) ==
    /\ \E task_id \in ids :
         resp' = Fetched("get_task_by_id", bearer, api_key,
                         TaskById(tasks, task_id), task_id)
    /\ UNCHANGED <<users, selfAdmins, employees, tasks, now, reg>>

(***************************************************************************)
(* jwt_auth.py authenticate_user and routers/auth_router.py login.         *)
(***************************************************************************)
INCORRECT_LOGIN == "Incorrect username or password"

\* Mutant: is_active is not tested.
authenticate_user_AnyAccount(db, username, password) ==
    LET user == get_user_by_username(db, username)
    IN  IF user = None THEN None
        ELSE IF ~verify_password(password, user.hashed_password) THEN None
        ELSE user

authenticate_user(db, username, password) ==
    LET user == get_user_by_username(db, username)
    IN  IF user = None THEN None
        ELSE IF ~verify_password(password, user.hashed_password) THEN None
        ELSE IF ~user.is_active THEN None
        ELSE user

\* Mutant: login rewrites the stored hash of the account it authenticated.
login_Rehash(data) ==
    LET user == authenticate_user(users, data.username, data.password)
    IN  /\ UNCHANGED <<selfAdmins, employees, tasks, now, reg>>
        /\ IF user = None
           THEN /\ resp' = WithBody(Response("login", None, NoValue, 401, INCORRECT_LOGIN,
                                             None, None), data)
                /\ UNCHANGED users
           ELSE /\ users' = (users \ {user}) \cup
                            {[user EXCEPT !.hashed_password = "$2b$12$" \o data.password]}
                /\ resp' = WithBody([TokenResponse("login", user, now)
                                        EXCEPT !.status = 200], data)

login(data) ==
    LET user == authenticate_user(users, data.username, data.password)
    IN  /\ UNCHANGED <<users, selfAdmins, employees, tasks, now, reg>>
        /\ resp' = WithBody(IF user = None
                            THEN Response("login", None, NoValue, 401, INCORRECT_LOGIN,
                                          None, None)
                            ELSE [TokenResponse("login", user, now) EXCEPT !.status = 200],
                            data)

(***************************************************************************)
(* jwt_auth.py: the bearer-only dependency chain of the /auth endpoints.   *)
(* security = HTTPBearer() answers a request with no Authorization header  *)
(* itself, "Not authenticated", with the status of the installed FastAPI   *)
(* (403, or 401 in recent releases); the X-API-Key header is not read.     *)
(***************************************************************************)
NOT_VALIDATED == "Could not validate credentials"
NOT_AUTHENTICATED == "Not authenticated"
INACTIVE_USER == "Inactive user"

MissingBearerStatus == {401, 403}

get_current_active_user(bearer, db, t, missing) ==
    IF bearer = None THEN Failed(missing, NOT_AUTHENTICATED, NotCalled)
    ELSE LET current_user == get_current_user(bearer, db, t)
         IN  IF current_user = None THEN Failed(401, NOT_VALIDATED, None)
             ELSE IF ~current_user.is_active THEN Failed(400, INACTIVE_USER, current_user)
             ELSE Passed(current_user)

get_current_admin_user(bearer, db, t, missing) ==
    LET auth == get_current_active_user(bearer, db, t, missing)
    IN  IF auth.status # 0 THEN auth
        ELSE IF auth.user.role # ADMIN THEN Failed(403, FORBIDDEN, auth.user)
        ELSE auth

(***************************************************************************)
(* routers/auth_router.py: /auth/me and /auth/create-admin.                *)
(***************************************************************************)
get_current_user_info(bearer) ==
    \E missing \in MissingBearerStatus :
        LET auth == get_current_active_user(bearer, users, now, missing)
        IN  /\ UNCHANGED <<users, selfAdmins, employees, tasks, now, reg>>
            /\ resp' = IF auth.status # 0
                       THEN Rejected("me", bearer, NoValue, auth)
                       ELSE Done("me", bearer, NoValue, 200, auth)

\* Mutant: the row is created with the role of the request body.
ForcedRole_FromBody(data) == data.role

\* role=UserRole.ADMIN, whatever user_data.role says.
ForcedRole(data) == ADMIN

\* Mutant: the endpoint is gated by require_admin, the dual resolver of the
\* employee and task routers.
create_admin_user_DualGate(bearer, api_key, bodies) ==
    LET auth == require_admin(bearer, api_key, users, now)
    IN  /\ UNCHANGED <<selfAdmins, employees, tasks, now, reg>>
        /\ IF auth.status # 0
           THEN /\ resp' = Rejected("create_admin", bearer, api_key, auth)
                /\ UNCHANGED users
           ELSE \E data \in bodies :
                IF UsernameRegistered(users, data) \/ EmailRegistered(users, data)
                THEN /\ resp' = WithBody(Refused("create_admin", bearer, api_key, 400,
                                                 USERNAME_TAKEN, auth), data)
                     /\ UNCHANGED users
                ELSE /\ users' = users \cup {create_user(users, data, ADMIN)}
                     /\ resp' = WithBody(Done("create_admin", bearer, api_key, 200,
                                              auth), data)

\* The X-API-Key header of the request (api_key) is recorded in the
\* response and read by nothing: the chain is get_current_admin_user alone.
create_admin_user(bearer, api_key, bodies) ==
    \E missing \in MissingBearerStatus :
        LET auth == get_current_admin_user(bearer, users, now, missing)
        IN  /\ UNCHANGED <<selfAdmins, employees, tasks, now, reg>>
            /\ IF auth.status # 0
               THEN /\ resp' = Rejected("create_admin", bearer, api_key, auth)
                    /\ UNCHANGED users
               ELSE \E data \in bodies :
                    IF UsernameRegistered(users, data)
                    THEN /\ resp' = WithBody(Refused("create_admin", bearer, api_key, 400,
                                                     USERNAME_TAKEN, auth), data)
                         /\ UNCHANGED users
                    ELSE IF EmailRegistered(users, data)
                    THEN /\ resp' = WithBody(Refused("create_admin", bearer, api_key, 400,
                                                     EMAIL_TAKEN, auth), data)
                         /\ UNCHANGED users
                    ELSE /\ users' = users \cup {create_user(users, data, ForcedRole(data))}
                         /\ resp' = WithBody(Done("create_admin", bearer, api_key, 200,
                                                  auth), data)

\* GET /auth/users: db.query(User).all() behind get_current_admin_user.
list_all_users(bearer, api_key) ==
    \E missing \in MissingBearerStatus :
        LET auth == get_current_admin_user(bearer, users, now, missing)
        IN  /\ UNCHANGED <<users, selfAdmins, employees, tasks, now, reg>>
            /\ resp' = IF auth.status # 0
                       THEN Rejected("list_users", bearer, api_key, auth)
                       ELSE WithBody(Done("list_users", bearer, api_key, 200, auth),
                                     [users |-> users])

(***************************************************************************)
(* create_admin_user running beside the workers of register. It is an      *)
(* async def with no await in its body: the event loop runs one such body  *)
(* at a time, while the threads of register commit between its queries.    *)
(***************************************************************************)
AdmBodyPcs == {"adm_check_email", "adm_create"}

AdmStart(w, bearer, data) ==
    /\ reg[w].pc = "idle"
    /\ \E missing \in MissingBearerStatus :
         LET auth == get_current_admin_user(bearer, users, now, missing)
         IN  reg' = [reg EXCEPT ![w] =
                       IF auth.status # 0 THEN Finished(auth.status, auth.detail)
                       ELSE At("adm_check_username", data)]
    /\ UNCHANGED <<users, selfAdmins, employees, tasks, now, resp>>

AdmCheckUsername(w) ==
    /\ reg[w].pc = "adm_check_username"
    /\ \A v \in Workers \ {w} : reg[v].pc \notin AdmBodyPcs
    /\ reg' = [reg EXCEPT ![w] =
                 IF UsernameRegistered(users, reg[w].data)
                 THEN Finished(400, USERNAME_TAKEN)
                 ELSE At("adm_check_email", reg[w].data)]
    /\ UNCHANGED <<users, selfAdmins, employees, tasks, now, resp>>

AdmCheckEmail(w) ==
    /\ reg[w].pc = "adm_check_email"
    /\ reg' = [reg EXCEPT ![w] =
                 IF EmailRegistered(users, reg[w].data)
                 THEN Finished(400, EMAIL_TAKEN)
                 ELSE At("adm_create", reg[w].data)]
    /\ UNCHANGED <<users, selfAdmins, employees, tasks, now, resp>>

AdmCreate(w) ==
    /\ reg[w].pc = "adm_create"
    /\ LET data == reg[w].data
           db_user == create_user(users, data, ForcedRole(data))
       IN  IF UniqueViolation(users, db_user)
           THEN /\ reg' = [reg EXCEPT ![w] = Finished(500, SERVER_ERROR)]
                /\ UNCHANGED users
           ELSE /\ users' = users \cup {db_user}
                /\ reg' = [reg EXCEPT ![w] = Finished(200, "")]
    /\ UNCHANGED <<selfAdmins, employees, tasks, now, resp>>

(***************************************************************************)
(* create_employee and update_employee as run by the thread pool, one      *)
(* query or commit at a time. employees.email is unique (models.py): a     *)
(* commit that would store an email twice raises IntegrityError, which no  *)
(* handler catches.                                                        *)
(***************************************************************************)
EmpPcs == {"emp_check", "emp_insert", "upd_find", "upd_check", "upd_commit"}

\* Mutant: the column has no unique constraint.
EmployeeUniqueViolation_Unchecked(db, row) == FALSE

\* TRUE iff storing row violates the unique constraint on email.
EmployeeUniqueViolation(db, row) ==
    \E e \in db : e.id # row.id /\ e.email = row.email

EmpStart(w, bearer, api_key, email) ==
    /\ reg[w].pc = "idle"
    /\ MaxId(employees)
         + Cardinality({v \in Workers : reg[v].pc \in {"emp_check", "emp_insert"}})
         < MaxEmployees
    /\ LET auth == require_authentication(bearer, api_key, users, now)
       IN  reg' = [reg EXCEPT ![w] =
                     IF auth.status # 0 THEN Finished(auth.status, auth.detail)
                     ELSE At("emp_check", [email |-> email])]
    /\ UNCHANGED <<users, selfAdmins, employees, tasks, now, resp>>

EmpCheck(w) ==
    /\ reg[w].pc = "emp_check"
    /\ reg' = [reg EXCEPT ![w] =
                 IF \E e \in employees : e.email = reg[w].data.email
                 THEN Finished(400, EMPLOYEE_EXISTS)
                 ELSE At("emp_insert", reg[w].data)]
    /\ UNCHANGED <<users, selfAdmins, employees, tasks, now, resp>>

EmpInsert(w) ==
    /\ reg[w].pc = "emp_insert"
    /\ LET db_employee == [id |-> MaxId(employees) + 1, email |-> reg[w].data.email]
       IN  IF EmployeeUniqueViolation(employees, db_employee)
           THEN /\ reg' = [reg EXCEPT ![w] = Finished(500, SERVER_ERROR)]
                /\ UNCHANGED employees
           ELSE /\ employees' = employees \cup {db_employee}
                /\ reg' = [reg EXCEPT ![w] = Finished(201, "")]
    /\ UNCHANGED <<users, selfAdmins, tasks, now, resp>>

UpdStart(w, bearer, api_key, employee_id, update) ==
    /\ reg[w].pc = "idle"
    /\ LET auth == require_authentication(bearer, api_key, users, now)
       IN  reg' = [reg EXCEPT ![w] =
                     IF auth.status # 0 THEN Finished(auth.status, auth.detail)
                     ELSE At("upd_find", [employee_id |-> employee_id,
                                          update |-> update])]
    /\ UNCHANGED <<users, selfAdmins, employees, tasks, now, resp>>

\* The row is loaded into the session; the handler compares and writes
\* against this copy.
UpdFind(w) ==
    /\ reg[w].pc = "upd_find"
    /\ LET found == EmployeeById(employees, reg[w].data.employee_id)
       IN  reg' = [reg EXCEPT ![w] =
                     IF found = {} THEN Finished(404, NOT_FOUND)
                     ELSE At("upd_check",
                             [employee_id |-> reg[w].data.employee_id,
                              update |-> reg[w].data.update,
                              db_employee |-> CHOOSE e \in found : TRUE])]
    /\ UNCHANGED <<users, selfAdmins, employees, tasks, now, resp>>

UpdCheck(w) ==
    /\ reg[w].pc = "upd_check"
    /\ LET data == reg[w].data
       IN  reg' = [reg EXCEPT ![w] =
                     IF /\ "email" \in DOMAIN data.update
                        /\ data.update.email # data.db_employee.email
                        /\ \E e \in employees : e.email = data.update.email
                     THEN Finished(400, EMPLOYEE_EXISTS)
                     ELSE At("upd_commit", data)]
    /\ UNCHANGED <<users, selfAdmins, employees, tasks, now, resp>>

\* Only the attributes that differ from the loaded copy are written.
UpdCommit(w) ==
    /\ reg[w].pc = "upd_commit"
    /\ LET data == reg[w].data
           writes == /\ "email" \in DOMAIN data.update
                     /\ data.update.email # data.db_employee.email
           row == [id |-> data.db_employee.id, email |-> data.update.email]
       IN  IF ~writes
           THEN /\ reg' = [reg EXCEPT ![w] = Finished(200, "")]
                /\ UNCHANGED employees
           ELSE IF EmployeeUniqueViolation(employees, row)
           THEN /\ reg' = [reg EXCEPT ![w] = Finished(500, SERVER_ERROR)]
                /\ UNCHANGED employees
           ELSE /\ employees' = {e \in employees : e.id # row.id} \cup {row}
                /\ reg' = [reg EXCEPT ![w] = Finished(200, "")]
    /\ UNCHANGED <<users, selfAdmins, tasks, now, resp>>

(***************************************************************************)
(* Credentials a request may carry.                                        *)
(***************************************************************************)
IssuedAtStart(sub, role) == create_access_token([sub |-> sub, role |-> role], 0)

\* Signed tokens with every claim, for the registered names in both roles
\* and for a subject that has no account.
WellFormedTokens ==
    {IssuedAtStart(sub, role) : sub \in Usernames, role \in UserRole}
      \cup {IssuedAtStart(GhostName, CLIENT)}

\* A token whose signature does not verify, a signed token with no sub
\* claim, and a signed token with no exp claim.
ForgedToken == [IssuedAtStart("alice", ADMIN) EXCEPT !.signed = FALSE]
NoSubToken == [signed |-> TRUE,
               payload |-> [role |-> ADMIN, exp |-> ACCESS_TOKEN_EXPIRE_MINUTES]]
NoExpToken == [signed |-> TRUE, payload |-> [sub |-> "alice", role |-> ADMIN]]

Bearers == {None} \cup WellFormedTokens \cup {ForgedToken, NoSubToken, NoExpToken}

\* No header, the key of settings.API_KEY, the keys of settings.API_KEYS and
\* a key that is not configured.
ApiKeyHeaders == {NoValue, API_KEY, "wrong-key"} \cup API_KEYS

EmployeeIds == 1..MaxEmployees
TaskIds == 1..MaxTasks

(***************************************************************************)
(* Initial state: empty tables, no request in flight.                      *)
(***************************************************************************)
Init ==
    /\ users = {}
    /\ selfAdmins = {}
    /\ employees = {}
    /\ tasks = {}
    /\ now = 0
    /\ reg = [w \in Workers |-> Idle]
    /\ resp = NoResponse

(***************************************************************************)
(* SpecAuth: requests served one at a time, with every credential of       *)
(* Bearers and ApiKeyHeaders, against an endpoint behind                   *)
(* require_authentication (create employee) and one behind require_admin   *)
(* (delete employee). alice registers as admin and bob as client, in       *)
(* either order (the second registration as admin is refused); the clock   *)
(* advances.                                                               *)
(***************************************************************************)
Registrations ==
    {[username |-> "alice", email |-> "alice@x.io", password |-> "secret1", role |-> ADMIN],
     [username |-> "bob", email |-> "bob@x.io", password |-> "secret1", role |-> CLIENT]}

AuthRegister == \E data \in Registrations : Register(data)

AuthCreateEmployee ==
    \E b \in Bearers, k \in ApiKeyHeaders : create_employee(b, k, {"e1@x.io"})

AuthDeleteEmployee ==
    \E b \in Bearers, k \in ApiKeyHeaders : delete_employee(b, k, EmployeeIds)

NextAuth ==
    \/ AuthRegister
    \/ Tick
    \/ AuthCreateEmployee
    \/ AuthDeleteEmployee

SpecAuth == Init /\ [][NextAuth]_vars

(***************************************************************************)
(* SpecCrud: requests served one at a time against every employee and task *)
(* endpoint that writes, with every id and payload of the input domains.   *)
(* It starts after alice has registered as admin and bob as client; a      *)
(* request carries one of: nothing, alice's token, bob's token, the API    *)
(* key.                                                                    *)
(***************************************************************************)
AliceRow == create_user({}, CHOOSE d \in Registrations : d.username = "alice", ADMIN)
BobRow == create_user({AliceRow}, CHOOSE d \in Registrations : d.username = "bob", CLIENT)

InitCrud ==
    /\ users = {AliceRow, BobRow}
    /\ selfAdmins = {AliceRow.id}
    /\ employees = {}
    /\ tasks = {}
    /\ now = 0
    /\ reg = [w \in Workers |-> Idle]
    /\ resp = NoResponse

CrudCredentials ==
    {<<None, NoValue>>,
     <<IssuedAtStart("alice", ADMIN), NoValue>>,
     <<IssuedAtStart("bob", CLIENT), NoValue>>,
     <<None, API_KEY>>}

EmployeeUpdates == {[name |-> "renamed"]} \cup {[email |-> e] : e \in EmployeeEmails}

EmployeeIdInputs == (-1)..MaxEmployees

OptionalEmployeeIds == {Null} \cup {<<n>> : n \in EmployeeIdInputs}

TaskUpdates ==
    {[status |-> "completed"]} \cup {[employee_id |-> v] : v \in OptionalEmployeeIds}

CrudCreateEmployee ==
    \E c \in CrudCredentials : create_employee(c[1], c[2], EmployeeEmails)

CrudUpdateEmployee ==
    \E c \in CrudCredentials : update_employee(c[1], c[2], EmployeeIds, EmployeeUpdates)

CrudDeleteEmployee ==
    \E c \in CrudCredentials : delete_employee(c[1], c[2], EmployeeIds)

CrudCreateTask ==
    \E c \in CrudCredentials : create_task(c[1], c[2], OptionalEmployeeIds)

CrudUpdateTask ==
    \E c \in CrudCredentials : update_task(c[1], c[2], TaskIds, TaskUpdates)

CrudDeleteTask ==
    \E c \in CrudCredentials : delete_task(c[1], c[2], TaskIds)

CrudAssignTask ==
    \E c \in CrudCredentials :
        assign_task_to_employee(c[1], c[2], TaskIds, EmployeeIdInputs)

NextCrud ==
    \/ CrudCreateEmployee
    \/ CrudUpdateEmployee
    \/ CrudDeleteEmployee
    \/ CrudCreateTask
    \/ CrudUpdateTask
    \/ CrudDeleteTask
    \/ CrudAssignTask

SpecCrud == InitCrud /\ [][NextCrud]_vars

(***************************************************************************)
(* SpecRegSeq: /auth/register requests served one at a time, with every    *)
(* payload of UserCreate.                                                  *)
(***************************************************************************)
SeqRegister == \E data \in UserCreate : Register(data)

NextRegSeq ==
    \/ SeqRegister
    \/ Tick

SpecRegSeq == Init /\ [][NextRegSeq]_vars

(***************************************************************************)
(* SpecReg: /auth/register and /auth/create-admin requests running         *)
(* concurrently, one query or commit at a time.                            *)
(***************************************************************************)
\* Request bodies: each name with its own email in either role, and bob
\* with the email of alice.
IssueBodies ==
    {d \in UserCreate : d.email = d.username \o "@x.io"} \cup
    {[username |-> "bob", email |-> "alice@x.io", password |-> "secret1", role |-> CLIENT]}

AdmBearers == {None, IssuedAtStart("alice", ADMIN), IssuedAtStart("bob", CLIENT)}

\* A step of the request that worker w is running.
Proceed(w) ==
    \/ RegCheckUsername(w)
    \/ RegCheckEmail(w)
    \/ RegCount(w)
    \/ RegCreate(w)
    \/ AdmCheckUsername(w)
    \/ AdmCheckEmail(w)
    \/ AdmCreate(w)
    \/ get_db_close(w)

NextReg ==
    \E w \in Workers :
        \/ \E data \in UserCreate : RegStart(w, data)
        \/ \E b \in AdmBearers, data \in IssueBodies : AdmStart(w, b, data)
        \/ Proceed(w)

SpecReg == Init /\ [][NextReg]_vars

\* A request that has started is run to its end: the thread pool keeps
\* running a thread that can go on, and the event loop, which takes its
\* ready coroutines in turn, runs a create_admin_user body that waits for
\* another one to finish.
SpecRegFair ==
    SpecReg /\ \A w \in Workers : WF_vars(Proceed(w)) /\ SF_vars(AdmCheckUsername(w))

(***************************************************************************)
(* SpecEmp: create_employee and update_employee requests running           *)
(* concurrently on the workers of the thread pool, with the API key or     *)
(* with no credentials.                                                    *)
(***************************************************************************)
EmpCredentials == {<<None, API_KEY>>, <<None, NoValue>>}

ProceedEmp(w) ==
    \/ EmpCheck(w)
    \/ EmpInsert(w)
    \/ UpdFind(w)
    \/ UpdCheck(w)
    \/ UpdCommit(w)
    \/ get_db_close(w)

NextEmp ==
    \E w \in Workers :
        \/ \E c \in EmpCredentials, email \in EmployeeEmails :
              EmpStart(w, c[1], c[2], email)
        \/ \E c \in EmpCredentials, id \in EmployeeIds, email \in EmployeeEmails :
              UpdStart(w, c[1], c[2], id, [email |-> email])
        \/ ProceedEmp(w)

SpecEmp == Init /\ [][NextEmp]_vars

(***************************************************************************)
(* SpecIssue: the /auth endpoints served one at a time (register, login,   *)
(* me, create-admin), and one gated endpoint reached with a bearer token   *)
(* alone, from empty tables.                                               *)
(***************************************************************************)
UserLogin == [username : Usernames, password : Passwords \cup {"pw-wrong"}]

\* Every token create_access_token can have issued by now, for either role
\* claim, with a forged token, a token with no exp claim and no token.
IssuedTokens(names) ==
    {create_access_token([sub |-> sub, role |-> role], t) :
        sub \in names, role \in UserRole, t \in Instants}

IssueBearers == {None, ForgedToken, NoExpToken} \cup IssuedTokens(Usernames)

IssueRegister == \E data \in IssueBodies : Register(data)

IssueLogin == \E data \in UserLogin : login(data)

IssueMe == \E b \in IssueBearers : get_current_user_info(b)

IssueCreateAdmin == \E b \in IssueBearers : create_admin_user(b, NoValue, IssueBodies)

IssueDeleteEmployee == \E b \in IssueBearers : delete_employee(b, NoValue, EmployeeIds)

NextIssue ==
    \/ IssueRegister
    \/ IssueLogin
    \/ IssueMe
    \/ IssueCreateAdmin
    \/ IssueDeleteEmployee
    \/ Tick

SpecIssue == Init /\ [][NextIssue]_vars

(***************************************************************************)
(* SpecLogin: login, /auth/me and a gated endpoint against a users table   *)
(* that holds a row deactivated in the database. No endpoint clears        *)
(* is_active, but authenticate_user and get_current_active_user test it.   *)
(***************************************************************************)
DormantRow ==
    [id |-> 1, username |-> "carol", email |-> "carol@x.io",
     hashed_password |-> hash_password("secret1"), role |-> CLIENT, is_active |-> FALSE]

InitLogin ==
    /\ users = {DormantRow}
    /\ selfAdmins = {}
    /\ employees = {}
    /\ tasks = {}
    /\ now = 0
    /\ reg = [w \in Workers |-> Idle]
    /\ resp = NoResponse

LoginNames == Usernames \cup {DormantRow.username}

LoginRegister == \E data \in {d \in IssueBodies : d.role = CLIENT} : Register(data)

LoginLogin ==
    \E data \in [username : LoginNames, password : Passwords \cup {"pw-wrong"}] : login(data)

LoginMe == \E b \in {None} \cup IssuedTokens(LoginNames) : get_current_user_info(b)

\* A gated endpoint reached with a bearer token alone.
LoginCreateEmployee ==
    \E b \in {None} \cup IssuedTokens(LoginNames) :
        create_employee(b, NoValue, {"e1@x.io"})

NextLogin ==
    \/ LoginRegister
    \/ LoginLogin
    \/ LoginMe
    \/ LoginCreateEmployee
    \/ Tick

SpecLogin == InitLogin /\ [][NextLogin]_vars

(***************************************************************************)
(* SpecFrame: every endpoint that takes credentials or writes, served one  *)
(* at a time from empty tables: the /auth endpoints and the seven employee *)
(* and task endpoints, reached with the API key or with a client's token.  *)
(***************************************************************************)
FrameCredentials ==
    {<<None, API_KEY>>, <<IssuedAtStart("bob", CLIENT), NoValue>>}

FrameBearers == {None, IssuedAtStart("alice", ADMIN), IssuedAtStart("bob", CLIENT)}

FrameRegister == \E data \in Registrations : Register(data)

FrameLogin == \E data \in UserLogin : login(data)

FrameMe == \E b \in FrameBearers : get_current_user_info(b)

FrameCreateAdmin == \E b \in FrameBearers : create_admin_user(b, NoValue, Registrations)

FrameCreateEmployee ==
    \E c \in FrameCredentials : create_employee(c[1], c[2], {"e1@x.io"})

FrameUpdateEmployee ==
    \E c \in FrameCredentials :
        update_employee(c[1], c[2], EmployeeIds, {[email |-> "e2@x.io"]})

FrameDeleteEmployee ==
    \E c \in FrameCredentials : delete_employee(c[1], c[2], EmployeeIds)

FrameCreateTask ==
    \E c \in FrameCredentials : create_task(c[1], c[2], {Null, <<1>>})

FrameUpdateTask ==
    \E c \in FrameCredentials :
        update_task(c[1], c[2], TaskIds, {[employee_id |-> Null]})

FrameDeleteTask ==
    \E c \in FrameCredentials : delete_task(c[1], c[2], TaskIds)

FrameAssignTask ==
    \E c \in FrameCredentials : assign_task_to_employee(c[1], c[2], TaskIds, {1})

NextFrame ==
    \/ FrameRegister
    \/ FrameLogin
    \/ FrameMe
    \/ FrameCreateAdmin
    \/ FrameCreateEmployee
    \/ FrameUpdateEmployee
    \/ FrameDeleteEmployee
    \/ FrameCreateTask
    \/ FrameUpdateTask
    \/ FrameDeleteTask
    \/ FrameAssignTask

SpecFrame == Init /\ [][NextFrame]_vars

(***************************************************************************)
(* SpecRead: the list and get-by-id endpoints reached with every           *)
(* credential of Bearers and ApiKeyHeaders, while accounts register and    *)
(* the API key creates employees and tasks.                                *)
(***************************************************************************)
ReadRegister == \E data \in Registrations : Register(data)

ReadCreateEmployee == create_employee(None, API_KEY, {"e1@x.io"})

ReadCreateTask == create_task(None, API_KEY, {Null})

ReadAllEmployees == \E b \in Bearers, k \in ApiKeyHeaders : get_all_employees(b, k)

ReadEmployee ==
    \E b \in Bearers, k \in ApiKeyHeaders : get_employee_by_id(b, k, EmployeeIds)

ReadAllTasks == \E b \in Bearers, k \in ApiKeyHeaders : get_all_tasks(b, k)

ReadTask == \E b \in Bearers, k \in ApiKeyHeaders : get_task_by_id(b, k, TaskIds)

NextRead ==
    \/ ReadRegister
    \/ ReadCreateEmployee
    \/ ReadCreateTask
    \/ ReadAllEmployees
    \/ ReadEmployee
    \/ ReadAllTasks
    \/ ReadTask

SpecRead == Init /\ [][NextRead]_vars

(***************************************************************************)
(* SpecAdmin: /auth/create-admin and /auth/users reached with every        *)
(* credential of Bearers and ApiKeyHeaders, while accounts register and    *)
(* the clock runs past the expiry of the tokens.                           *)
(***************************************************************************)
AdminRegister == \E data \in Registrations : Register(data)

AdminCreateAdmin ==
    \E b \in Bearers, k \in ApiKeyHeaders : create_admin_user(b, k, Registrations)

AdminListUsers == \E b \in Bearers, k \in ApiKeyHeaders : list_all_users(b, k)

NextAdmin ==
    \/ AdminRegister
    \/ AdminCreateAdmin
    \/ AdminListUsers
    \/ Tick

SpecAdmin == Init /\ [][NextAdmin]_vars

(***************************************************************************)
(* Properties.                                                             *)
(***************************************************************************)
GatedOps == {"create_employee", "update_employee", "delete_employee",
             "create_task", "update_task", "delete_task", "assign_task"}
DeleteOps == {"delete_employee", "delete_task"}
WriteOps == GatedOps \ DeleteOps

\* The step serves a request of one of ops, answered by resp': it is not
\* a step of the clock or of a registration in flight, which leave resp.
Serves(ops) == resp'.op \in ops /\ now' = now /\ reg' = reg

KnownSubject(b, db) ==
    "sub" \in DOMAIN b.payload /\ \E u \in db : u.username = b.payload.sub

\* A bearer token that is signed, carries an expiry not yet passed at t and
\* names an account of db.
ValidBearer(b, db, t) ==
    /\ b # None
    /\ b.signed
    /\ "exp" \in DOMAIN b.payload
    /\ b.payload.exp >= t
    /\ KnownSubject(b, db)

\* A bearer token with a bad signature, an expiry passed at t, no subject
\* or a subject with no account in db.
InvalidBearer(b, db, t) ==
    /\ b # None
    /\ \/ ~b.signed
       \/ ("exp" \in DOMAIN b.payload /\ b.payload.exp < t)
       \/ ~KnownSubject(b, db)

AccountOf(b, db) == CHOOSE u \in db : u.username = b.payload.sub

PresentInvalidKey(k) == k # NoValue /\ k # API_KEY

\* The user field holds an identity (a row or the virtual admin).
HasIdentity(r) == r.user # None /\ r.user # NotCalled

\* C1: a request with a valid bearer token and a present but invalid API
\* key resolves to the bearer token's account and is not rejected as
\* unauthenticated.
C1_ValidBearerWinsOverBadKey ==
    (/\ resp.op \in GatedOps
     /\ ValidBearer(resp.bearer, users, resp.at)
     /\ PresentInvalidKey(resp.api_key))
    => (resp.user = AccountOf(resp.bearer, users) /\ resp.status # 401)

\* C2: a request with an invalid, expired, malformed or unknown-subject
\* bearer token and a valid API key resolves to the synthetic admin and
\* passes require_authentication and require_admin.
C2_BadBearerFallsBackToKey ==
    (/\ resp.op \in GatedOps
     /\ InvalidBearer(resp.bearer, users, resp.at)
     /\ resp.api_key = API_KEY)
    => (resp.user = virtual_admin /\ resp.status \notin {401, 403})

C2_Witness ==
    /\ resp.op = "delete_employee"
    /\ resp.bearer \in WellFormedTokens
    /\ KnownSubject(resp.bearer, users)
    /\ resp.bearer.payload.exp < resp.at
    /\ resp.api_key = API_KEY
    /\ resp.user = virtual_admin
    /\ resp.status = 204

\* C3: a request with a valid bearer token of a client account and a valid
\* API key resolves to that client account; a delete it makes is answered
\* 403 Forbidden and leaves employees and tasks as they were.
C3_ClientBearerWinsOverKey ==
    [][(/\ Serves(GatedOps)
        /\ ValidBearer(resp'.bearer, users, now)
        /\ AccountOf(resp'.bearer, users).role = CLIENT
        /\ resp'.api_key = API_KEY)
       => (/\ resp'.user = AccountOf(resp'.bearer, users)
           /\ resp'.user.role = CLIENT
           /\ (resp'.op \in DeleteOps =>
                 /\ resp'.status = 403
                 /\ resp'.detail = FORBIDDEN
                 /\ employees' = employees
                 /\ tasks' = tasks))]_vars

C3_Witness ==
    /\ resp.op = "delete_employee"
    /\ ValidBearer(resp.bearer, users, resp.at)
    /\ resp.api_key = API_KEY
    /\ resp.user \in users
    /\ resp.user.role = CLIENT
    /\ resp.status = 403
    /\ employees # {}

\* C4: a request with a valid bearer token and no API key resolves to the
\* row of the users table named by the token's subject, with the role
\* stored in that row.
C4_BearerOnlyResolvesStoredAccount ==
    (/\ resp.op \in GatedOps
     /\ ValidBearer(resp.bearer, users, resp.at)
     /\ resp.api_key = NoValue)
    => (/\ resp.user \in users
        /\ resp.user.username = resp.bearer.payload.sub
        /\ resp.user = AccountOf(resp.bearer, users))

\* The token claims a role other than the one stored.
C4_Witness ==
    /\ resp.op \in GatedOps
    /\ ValidBearer(resp.bearer, users, resp.at)
    /\ resp.api_key = NoValue
    /\ resp.user \in users
    /\ resp.user.role = ADMIN
    /\ resp.bearer.payload.role = CLIENT

\* C5: a request with an invalid bearer token and no API key resolves to
\* no identity (the resolver returns None), and require_authentication
\* answers 401 "Authentication required".
C5_BadBearerAloneIsUnauthenticated ==
    (/\ resp.op \in GatedOps
     /\ InvalidBearer(resp.bearer, users, resp.at)
     /\ resp.api_key = NoValue)
    => (resp.user = None /\ resp.status = 401 /\ resp.detail = UNAUTHENTICATED)

\* A forged token naming an existing account.
C5_Witness ==
    /\ resp.op \in GatedOps
    /\ resp.bearer # None
    /\ ~resp.bearer.signed
    /\ KnownSubject(resp.bearer, users)
    /\ resp.api_key = NoValue
    /\ resp.user = None
    /\ resp.status = 401

\* C6: every request to a gated endpoint that fails authentication gets
\* the same 401 "Authentication required", whichever credential was wrong.
C6_OneUnauthenticatedFailure ==
    (resp.op \in GatedOps /\ resp.status = 401) => resp.detail = UNAUTHENTICATED

\* Some row of rows has no row of the same id left in rows2.
Removed(rows, rows2) == \E r \in rows : \A q \in rows2 : q.id # r.id

\* C7: an employee or a task leaves its table only in a delete request
\* whose resolved identity has role admin; a delete by an identity of
\* another role is answered 403 Forbidden, a delete for which the resolver
\* found no identity is answered 401 "Authentication required", and every
\* delete that is refused leaves employees and tasks as they were.
C7_OnlyAdminDeletes ==
    [][/\ (Removed(employees, employees') \/ Removed(tasks, tasks'))
            => (/\ Serves(DeleteOps)
                /\ resp'.status = 204
                /\ HasIdentity(resp')
                /\ resp'.user.role = ADMIN)
       /\ Serves(DeleteOps) =>
            /\ (HasIdentity(resp') /\ resp'.user.role # ADMIN)
                  => (resp'.status = 403 /\ resp'.detail = FORBIDDEN)
            /\ resp'.user = None
                  => (resp'.status = 401 /\ resp'.detail = UNAUTHENTICATED)
            /\ resp'.status # 204 => (employees' = employees /\ tasks' = tasks)]_vars

\* alice, an admin account, deleted an employee together with its task
\* while another employee stays.
C7_Witness ==
    /\ resp.op = "delete_employee"
    /\ resp.user = AliceRow
    /\ resp.status = 204
    /\ Cardinality(employees) = 1
    /\ tasks = {}

\* C8: create, update and assign requests are not refused on grounds of
\* role: whatever identity the resolver found, the answer is neither 401
\* nor 403; the answer is 401 "Authentication required" exactly when the
\* resolver found no identity; and a request answered 401 or 403 leaves
\* employees and tasks as they were.
C8_WritesNeedOnlyAnIdentity ==
    [][Serves(WriteOps) =>
         /\ HasIdentity(resp') => resp'.status \in {200, 201, 400, 404}
         /\ (resp'.status = 401 /\ resp'.detail = UNAUTHENTICATED) <=> resp'.user = None
         /\ resp'.status \in {401, 403} => (employees' = employees /\ tasks' = tasks)]_vars

\* A client updated a task.
C8_Witness ==
    /\ resp.op = "update_task"
    /\ resp.user = BobRow
    /\ resp.status = 200
    /\ \E t \in tasks : t.employee_id # Null

\* C9 as claimed: a sequential self-registration as admin succeeds iff the
\* users table is empty, and once a row exists every self-registration as
\* admin is answered 403 Forbidden and adds no row.
C9_AdminOnlyFirstAlwaysForbidden ==
    [][(Serves({"register"}) /\ resp'.body.role = ADMIN) =>
         /\ resp'.status = 201 <=> users = {}
         /\ users # {} => (resp'.status = 403 /\ users' = users)]_vars

\* C9 as amended: a sequential self-registration as admin succeeds iff the
\* users table is empty; once a row exists it adds no row, and is answered
\* 403 Forbidden when its username and email are free, 400 (already
\* registered) when one of them is taken.
C9_AdminOnlyFirst ==
    [][(Serves({"register"}) /\ resp'.body.role = ADMIN) =>
         /\ resp'.status = 201 <=> users = {}
         /\ resp'.status = 201 =>
              (users' = users \cup {resp'.user} /\ resp'.user.role = ADMIN
               /\ resp'.user \notin users)
         /\ users # {} =>
              /\ users' = users
              /\ resp'.status = 403 <=>
                   \A u \in users : (u.username # resp'.body.username
                                     /\ u.email # resp'.body.email)
              /\ resp'.status = 400 <=>
                   \E u \in users : (u.username = resp'.body.username
                                     \/ u.email = resp'.body.email)]_vars

\* An admin registration refused with free username and email.
C9_Witness ==
    /\ resp.op = "register"
    /\ resp.body.role = ADMIN
    /\ resp.status = 403
    /\ Cardinality(users) = 1
    /\ \A u \in users : u.username # resp.body.username /\ u.email # resp.body.email

\* C10: under every interleaving of register requests, at most one row of
\* the users table was self-registered as admin.
C10_AtMostOneSelfRegisteredAdmin == Cardinality(selfAdmins) <= 1

\* The step serves a request that creates an account from a body: a
\* register, or a create-admin that passed its dependency chain.
ServesCreation ==
    Serves({"register", "create_admin"}) /\ resp'.body # None

UsernameTaken(db, body) == \E u \in db : u.username = body.username
EmailTaken(db, body) == \E u \in db : u.email = body.email

\* The request was answered 400 with detail, added no row and got no token.
RefusedAsDuplicate(detail) ==
    /\ resp'.status = 400
    /\ resp'.detail = detail
    /\ users' = users
    /\ resp'.token = None

\* C11 as claimed: a registration whose username is that of a row is
\* answered 400 naming the username, and one whose email is that of a row is
\* answered 400 naming the email; neither adds a row nor returns a token.
C11_DuplicateNamesEachField ==
    [][ServesCreation =>
         /\ UsernameTaken(users, resp'.body) => RefusedAsDuplicate(USERNAME_TAKEN)
         /\ EmailTaken(users, resp'.body) => RefusedAsDuplicate(EMAIL_TAKEN)]_vars

\* C11 as amended: a registration whose username is that of a row is
\* answered 400 naming the username, whatever its email; one whose username
\* is free and whose email is that of a row is answered 400 naming the
\* email; neither adds a row nor returns a token.
C11_DuplicateNamesFirstField ==
    [][ServesCreation =>
         /\ UsernameTaken(users, resp'.body) => RefusedAsDuplicate(USERNAME_TAKEN)
         /\ (~UsernameTaken(users, resp'.body) /\ EmailTaken(users, resp'.body))
               => RefusedAsDuplicate(EMAIL_TAKEN)]_vars

\* bob registered with the email of alice.
C11_Witness ==
    /\ resp.op = "register"
    /\ resp.status = 400
    /\ resp.detail = EMAIL_TAKEN
    /\ ~UsernameTaken(users, resp.body)
    /\ EmailTaken(users, resp.body)

\* No two rows of db share a username or an email.
UniqueAccounts(db) ==
    \A u, v \in db : u # v => (u.username # v.username /\ u.email # v.email)

\* C12: under every interleaving of register and create-admin requests no
\* two rows of the users table share a username or an email; a step adds at
\* most one row and changes none; and an insert refused by the unique
\* constraints (answered 500) leaves the table as it was.
C12_UniqueUnderConcurrency ==
    [][/\ UniqueAccounts(users')
       /\ users \subseteq users'
       /\ Cardinality(users') <= Cardinality(users) + 1
       /\ \A w \in Workers :
            (reg[w].pc \in {"create", "adm_create"} /\ reg'[w].status = 500)
               => users' = users]_vars

\* Both workers passed the checks with the same username; one inserted and
\* the other was refused by the constraint.
C12_Witness ==
    \E w, v \in Workers :
        /\ w # v
        /\ reg[w].status = 500
        /\ reg[v].status \in {200, 201}
        /\ Cardinality(users) = 1

\* C13: a create-admin request adds a row only when its caller resolved to
\* an active account of role admin, the row added has role admin whatever
\* role the body asked for, and a caller that resolved to an account of
\* another role is answered 403 Forbidden and adds nothing.
C13_CreateAdminForcesRole ==
    [][Serves({"create_admin"}) =>
         /\ users' # users =>
              /\ resp'.status = 200
              /\ resp'.user \in users
              /\ resp'.user.role = ADMIN
              /\ resp'.user = get_current_user(resp'.bearer, users, now)
              /\ \E row \in users' \ users :
                   /\ users' = users \cup {row}
                   /\ row.username = resp'.body.username
                   /\ row.role = ADMIN
         /\ (HasIdentity(resp') /\ resp'.user.role # ADMIN) =>
              (resp'.status = 403 /\ resp'.detail = FORBIDDEN /\ users' = users)
         /\ resp'.status # 200 => users' = users]_vars

\* An admin created an account from a body that asked for role client.
C13_Witness ==
    /\ resp.op = "create_admin"
    /\ resp.status = 200
    /\ resp.body.role = CLIENT
    /\ \E u \in users : u.username = resp.body.username /\ u.role = ADMIN

\* What a client sees of a response: everything but the request it sent
\* and the time it was served.
Visible(r) == [status |-> r.status, detail |-> r.detail, token |-> r.token]

LoginFailure == [status |-> 401, detail |-> INCORRECT_LOGIN, token |-> None]

UnknownUsername(db, body) == \A u \in db : u.username # body.username

WrongPassword(db, body) ==
    \E u \in db : u.username = body.username
                  /\ u.hashed_password # hash_password(body.password)

InactiveAccount(db, body) ==
    \E u \in db : /\ u.username = body.username
                  /\ u.hashed_password = hash_password(body.password)
                  /\ ~u.is_active

\* C14: a login with an unknown username, with a known username and a wrong
\* password, or with the right password of an inactive account is answered
\* by one and the same response, 401 "Incorrect username or password" with
\* no token; every other login is answered 200 with a token.
C14_LoginFailuresAlike ==
    [][Serves({"login"}) =>
         IF \/ UnknownUsername(users, resp'.body)
            \/ WrongPassword(users, resp'.body)
            \/ InactiveAccount(users, resp'.body)
         THEN Visible(resp') = LoginFailure /\ resp'.user = None
         ELSE resp'.status = 200 /\ resp'.token # None]_vars

\* The right password of the inactive account was refused.
C14_Witness ==
    /\ resp.op = "login"
    /\ InactiveAccount(users, resp.body)
    /\ Visible(resp) = LoginFailure

\* Requests that resolve an identity from a bearer token alone.
BearerOps == {"me", "delete_employee"}

\* C15: a token returned by register or login carries sub = the username
\* and role = the role of the account it was returned for; a request that
\* presents a signed token naming an account, at a time not after its exp,
\* resolves to that account, and so does the request that presents the
\* token of the response just received.
C15_TokenRoundTrip ==
    [][/\ resp'.token # None =>
            /\ resp'.op \in {"register", "login"}
            /\ resp'.user \in users'
            /\ resp'.token.signed
            /\ resp'.token.payload.sub = resp'.user.username
            /\ resp'.token.payload.role = resp'.user.role
       /\ (Serves(BearerOps) /\ resp'.api_key = NoValue) =>
            /\ \A u \in users :
                 (/\ resp'.bearer \in IssuedTokens({u.username})
                  /\ now <= resp'.bearer.payload.exp)
                    => (resp'.user = u /\ resp'.status \notin {400, 401})
            /\ (/\ resp.token # None
                /\ resp'.bearer = resp.token
                /\ now <= resp.token.payload.exp)
                    => (resp'.user = resp.user /\ resp'.status \notin {400, 401})]_vars

\* A token was presented in the last minute of its life and resolved to
\* the account it names.
C15_Witness ==
    /\ resp.op = "me"
    /\ resp.status = 200
    /\ resp.bearer \in IssuedTokens(Usernames)
    /\ resp.bearer.payload.exp = resp.at
    /\ resp.user \in users
    /\ resp.user.username = resp.bearer.payload.sub
    /\ resp.user.role = resp.bearer.payload.role

\* C16: a token returned by register or login expires at its issue time
\* plus ACCESS_TOKEN_EXPIRE_MINUTES, and a request that presents an issued
\* token alone at any later time resolves to no identity and is answered
\* 401.
C16_TokenExpires ==
    [][/\ resp'.token # None =>
            resp'.token.payload.exp = resp'.at + ACCESS_TOKEN_EXPIRE_MINUTES
       /\ (/\ Serves(BearerOps)
           /\ resp'.api_key = NoValue
           /\ resp'.bearer \in IssuedTokens(Usernames)
           /\ now > resp'.bearer.payload.exp)
             => (resp'.user = None /\ resp'.status = 401)]_vars

\* The token of an existing account was refused one minute after its expiry.
C16_Witness ==
    /\ resp.op \in BearerOps
    /\ resp.bearer \in IssuedTokens(Usernames)
    /\ KnownSubject(resp.bearer, users)
    /\ resp.at = resp.bearer.payload.exp + 1
    /\ resp.user = None
    /\ resp.status = 401

\* C17: two verifications of one token by /auth/me, the first successful and
\* the token not expired at the second, resolve to the same account, and a
\* verification leaves users, employees and tasks as they were.
C17_VerificationIdempotent ==
    [][Serves({"me"}) =>
         /\ users' = users /\ employees' = employees /\ tasks' = tasks
         /\ (/\ resp.op = "me"
             /\ resp.status = 200
             /\ resp'.bearer = resp.bearer
             /\ ("exp" \in DOMAIN resp.bearer.payload =>
                    now <= resp.bearer.payload.exp))
               => (resp'.status = 200 /\ resp'.user = resp.user)]_vars

\* The same token was verified at the start and again in the last minute
\* of its life.
C17_Witness ==
    /\ resp.op = "me"
    /\ resp.status = 200
    /\ resp.bearer \in IssuedTokens(Usernames)
    /\ resp.bearer.payload.exp = ACCESS_TOKEN_EXPIRE_MINUTES
    /\ resp.at = ACCESS_TOKEN_EXPIRE_MINUTES
    /\ resp.user \in users
    /\ resp.user.username = resp.bearer.payload.sub

\* C18: the users table changes only in a register or create-admin request
\* that succeeded, which adds one row and changes none; login, /auth/me and
\* the employee and task endpoints leave it as it was; and the virtual admin
\* of the API key is never a row of it.
C18_OnlyRegistrationWritesUsers ==
    [][/\ users' # users =>
            /\ Serves({"register", "create_admin"})
            /\ resp'.status \in {200, 201}
            /\ users \subseteq users'
            /\ Cardinality(users') = Cardinality(users) + 1
       /\ virtual_admin \notin users'
       /\ \A u \in users' : u.id # virtual_admin.id
                            /\ u.username # virtual_admin.username]_vars

\* The virtual admin created an employee while accounts exist, and the
\* accounts are the two that registered.
C18_Witness ==
    /\ resp.op = "create_employee"
    /\ resp.user = virtual_admin
    /\ resp.status = 201
    /\ users = {AliceRow, BobRow}

\* C19: the identity a gated request was served under is either a row of
\* the users table as stored, reached through the bearer token that names
\* it, or the virtual admin, reached through the configured API key, and
\* never both or a mixture: the virtual admin is no row, and an identity
\* with the username of a row is that row.
C19_OneIdentityNeverMerged ==
    (resp.op \in GatedOps /\ HasIdentity(resp)) =>
        /\ \/ /\ resp.user \in users
              /\ resp.user # virtual_admin
              /\ resp.bearer # None
              /\ KnownSubject(resp.bearer, users)
              /\ resp.user = AccountOf(resp.bearer, users)
           \/ /\ resp.user = virtual_admin
              /\ resp.user \notin users
              /\ resp.api_key = API_KEY
        /\ \A u \in users : u.username = resp.user.username => u = resp.user

\* A client's valid token and the valid API key were sent together; the
\* request was served as the client row.
C19_Witness ==
    /\ resp.op = "create_employee"
    /\ resp.status = 201
    /\ resp.api_key = API_KEY
    /\ resp.bearer = IssuedAtStart("bob", CLIENT)
    /\ resp.user = BobRow
    /\ resp.user \in users

\* C20: the session opened for a request is closed when the request ends,
\* whatever its answer: a started request is run to its end, a worker with
\* an open session eventually has none, and no worker is idle with its
\* session open.
C20_SessionReleased ==
    \A w \in Workers :
        /\ [](reg[w].pc = "idle" => ~reg[w].db)
        /\ (reg[w].db ~> ~reg[w].db)

\* One request ended on the unique constraint (500) and another on a
\* duplicate username (400); both sessions are closed.
C20_Witness ==
    \E w, v \in Workers :
        /\ reg[w].pc = "idle" /\ reg[w].status = 500 /\ ~reg[w].db
        /\ reg[v].pc = "idle" /\ reg[v].status = 400 /\ ~reg[v].db

\* C21: a delete of employee e answered 204 removes e and exactly the tasks
\* whose employee_id is e: no task of e is left, and the tasks of other
\* employees and the tasks with no employee stay as they were.
C21_DeleteEmployeeCascades ==
    [][(Serves({"delete_employee"}) /\ resp'.status = 204) =>
         \E e \in employees :
            /\ employees' = employees \ {e}
            /\ tasks' = {t \in tasks : t.employee_id # <<e.id>>}
            /\ \A t \in tasks' : t.employee_id # <<e.id>>]_vars

\* An employee was deleted; the task of the employee that stays is still
\* there and the other task is gone.
C21_Witness ==
    /\ resp.op = "delete_employee"
    /\ resp.status = 204
    /\ \E e \in employees :
         /\ employees = {e}
         /\ tasks = {[id |-> 2, employee_id |-> <<e.id>>]}

UniqueEmails(db) == \A e, f \in db : e # f => (e.id # f.id /\ e.email # f.email)

\* C22: under every interleaving of create_employee and update_employee
\* requests no two employees share an email, and a request that ends in a
\* failure leaves the employees as they were.
C22_EmployeeEmailsUnique ==
    [][/\ UniqueEmails(employees')
       /\ \A w \in Workers :
            (/\ reg[w].pc \in EmpPcs \cup {"idle"}
             /\ reg'[w].pc = "exit"
             /\ reg'[w].status \notin {200, 201})
               => employees' = employees]_vars

\* A create and an update raced for one email: both passed the check, one
\* stored it and the other was refused at commit.
C22_Witness ==
    \E w, v \in Workers :
        /\ reg[w].status = 500
        /\ reg[v].status = 200
        /\ Cardinality(employees) = 1
        /\ reg[w].pc = "idle" /\ reg[v].pc = "idle"

ListOps == {"get_all_employees", "get_all_tasks"}
FetchOps == {"get_employee_by_id", "get_task_by_id"}

\* The row a get-by-id response was asked for is in its table.
FetchedRowExists(r) ==
    IF r.op = "get_employee_by_id"
    THEN EmployeeById(employees, r.body.id) # {}
    ELSE TaskById(tasks, r.body.id) # {}

\* C23: the list and get-by-id endpoints of employees and tasks answer
\* without regard to the credentials sent: a list is answered 200, a
\* get-by-id 200 when the row exists and 404 when it does not, never 401 or
\* 403; and they leave users, employees and tasks as they were.
C23_ReadsArePublic ==
    [][Serves(ListOps \cup FetchOps) =>
         /\ users' = users /\ employees' = employees /\ tasks' = tasks
         /\ resp'.op \in ListOps => resp'.status = 200
         /\ resp'.op \in FetchOps =>
              resp'.status = (IF FetchedRowExists(resp') THEN 200 ELSE 404)]_vars

\* An employee was read with a forged token and a wrong API key.
C23_Witness ==
    /\ resp.op = "get_employee_by_id"
    /\ resp.status = 200
    /\ resp.bearer = ForgedToken
    /\ PresentInvalidKey(resp.api_key)
    /\ users # {}

RegPcs == {"check_username", "check_email", "count", "create"}

\* C24: under every interleaving, a register request ends in 201 (account
\* and token), in 400 (username or email already registered) or in 403
\* (self-requested admin), and in nothing else.
C24_RegisterEndsClassified ==
    [][\A w \in Workers :
         (reg[w].pc \in RegPcs /\ reg'[w].pc = "exit")
            => reg'[w].status \in {201, 400, 403}]_vars

\* C25: a signed bearer token with no exp claim, presented alone, resolves
\* to no account.
C25_NoExpiryRejected ==
    (/\ resp.op \in GatedOps
     /\ resp.bearer # None
     /\ resp.bearer.signed
     /\ "exp" \notin DOMAIN resp.bearer.payload
     /\ resp.api_key = NoValue)
    => (resp.user = None /\ resp.status = 401)

\* C26: a request whose X-API-Key is one of the configured keys (API_KEY or
\* a value of API_KEYS), with no bearer token that verifies, is served as
\* the virtual admin; one whose key is none of them is answered 401.
C26_EveryConfiguredKeyAccepted ==
    (/\ resp.op \in GatedOps
     /\ resp.api_key # NoValue
     /\ resp.bearer = None \/ InvalidBearer(resp.bearer, users, resp.at))
    => IF resp.api_key \in {API_KEY} \cup API_KEYS
       THEN resp.user = virtual_admin /\ resp.status \notin {401, 403}
       ELSE resp.status = 401

\* The token create_access_token issued for account u at instant t.
TokenOf(u, t) == create_access_token([sub |-> u.username, role |-> u.role], t)

\* C27: no revocation. Accounts are never removed or changed, and in every
\* state each token issued for an account at an instant not after now, and
\* not yet expired, resolves to that account, alone or through the dual
\* resolver, whatever was served in between; a request that presents such
\* a token alone is served as that account. Resolution reads users and the
\* clock only, and users starts empty, so the second conjunct is evaluated
\* on the steps that change either.
C27_NoRevocation ==
    [][/\ users \subseteq users'
       /\ (users' # users \/ now' # now) =>
            \A t \in {i \in Instants : i <= now' /\ now' <= i + ACCESS_TOKEN_EXPIRE_MINUTES} :
                \A u \in users' :
                    LET b == TokenOf(u, t)
                    IN  /\ b.payload.exp = t + ACCESS_TOKEN_EXPIRE_MINUTES
                        /\ get_current_user(b, users', now') = u
                        /\ get_current_user_dual(b, NoValue, users', now') = u
       /\ (Serves(BearerOps) /\ resp'.api_key = NoValue) =>
            \A u \in users, t \in Instants :
                (resp'.bearer = TokenOf(u, t) /\ t <= now /\ now <= resp'.bearer.payload.exp)
                    => resp'.user = u]_vars

\* An account logged in again on the last minute of its first token, and a
\* second account was registered in between: the first token and the new
\* one both resolve to the account.
C27_Witness ==
    /\ resp.op = "login"
    /\ resp.status = 200
    /\ resp.at = ACCESS_TOKEN_EXPIRE_MINUTES
    /\ now = resp.at
    /\ Cardinality(users) = 2
    /\ resp.token = TokenOf(resp.user, now)
    /\ resp.token # TokenOf(resp.user, 0)
    /\ get_current_user(TokenOf(resp.user, 0), users, now) = resp.user
    /\ get_current_user(resp.token, users, now) = resp.user

\* C28: a gated request whose bearer token verifies and names an account
\* with is_active false is rejected and leaves employees and tasks as they
\* were.
C28_InactiveNeverAuthorized ==
    [][(/\ Serves(GatedOps)
        /\ ValidBearer(resp'.bearer, users, now)
        /\ ~AccountOf(resp'.bearer, users).is_active)
         => /\ resp'.status \in {400, 401, 403}
            /\ employees' = employees
            /\ tasks' = tasks]_vars

\* C29: every task's employee_id is empty or the id of a row of employees.
C29_TasksReferToEmployees ==
    \A t \in tasks :
        t.employee_id = Null \/ \E e \in employees : t.employee_id = <<e.id>>

AdminOps == {"create_admin", "list_users"}

====
